---- MODULE Spec2Model ----
(***************************************************************************)
(* Teammate-finder: the team roster handlers of app/routes/teams_restx.py  *)
(* over the tables of app/models.py (users, competitions, teams and the    *)
(* team_members association table).                                        *)
(***************************************************************************)
EXTENDS Integers, FiniteSets, Sequences, Bags, TLC

\* ------------------------------------------------------------------ bounds
MaxUsers == 2
MaxTeams == 1
MaxCompetitions == 1
MaxInflight == 2
MaxCrossTeams == 2

\* --------------------------------------------------------------- constants
TeamStatuses == {"open", "closed", "active"}
NoUser == 0
NoTeamId == 0

VARIABLES
    users,                \* table users: id -> row
    next_user_id,         \* autoincrement of users.id
    competitions,         \* table competitions: id -> row
    next_competition_id,  \* autoincrement of competitions.id
    teams,                \* table teams: id -> row
    next_team_id,         \* autoincrement of teams.id
    team_members,         \* table team_members: a bag of rows (user_id, team_id, role)
    last,                 \* the request handled last and its response
    inflight              \* requests past their checks, not yet committed (a bag)

vars == <<users, next_user_id, competitions, next_competition_id,
          teams, next_team_id, team_members, last, inflight>>

dbvars == <<users, next_user_id, competitions, next_competition_id,
            teams, next_team_id, team_members>>

\* ---------------------------------------------------------------- helpers
\* The rows of team_members that belong to team t.
RowsOf(tm, t) == {r \in BagToSet(tm) : r.team_id = t}

\* team.members: the users joined to team t through team_members.
Members(t) == {r.user_id : r \in RowsOf(team_members, t)}

\* Team.is_member / `user in team.members`
is_member(t, u) == u \in Members(t)

\* Number of team_members rows with the key (u, t).
RowCount(tm, u, t) ==
    LET rows == {r \in BagToSet(tm) : r.user_id = u /\ r.team_id = t}
        RECURSIVE Sum(_)
        Sum(S) == IF S = {} THEN 0
                  ELSE LET r == CHOOSE x \in S : TRUE
                       IN CopiesIn(r, tm) + Sum(S \ {r})
    IN Sum(rows)

\* team_members without its primary key: every INSERT is accepted.
team_members_association_NoKey(tm, u, t) == TRUE

\* The composite primary key (user_id, team_id) of team_members: an INSERT of
\* a key that is present is rejected by the data store.
team_members_association(tm, u, t) == RowCount(tm, u, t) = 0

\* The role column defaulting to leader.
MemberRow_Leader(u, t) == [user_id |-> u, team_id |-> t, role |-> "leader"]

\* A new team_members row; the role column takes its default.
MemberRow(u, t) == [user_id |-> u, team_id |-> t, role |-> "member"]

\* The snapshot of team t that a response is compared with.
NoTeam == [exists |-> FALSE, leader_id |-> NoUser, status |-> "none",
           competition_id |-> 0, members |-> {}]

Snapshot(t) ==
    IF t \in DOMAIN teams
    THEN [exists |-> TRUE, leader_id |-> teams[t].leader_id,
          status |-> teams[t].status,
          competition_id |-> teams[t].competition_id,
          members |-> Members(t)]
    ELSE NoTeam

\* auth is the verdict on the request's access token: "valid" when a handler
\* ran with an identity, "none" when no token was asked for.
Response(op, u, t, arg, code, msg, pre) ==
    [op |-> op, user |-> u, team |-> t, arg |-> arg,
     code |-> code, msg |-> msg, pre |-> pre,
     auth |-> IF u = NoUser THEN "none" ELSE "valid"]

\* Team.to_dict(include_members=True): what a response shows of team t.
to_dict(t) ==
    [id |-> t, name |-> teams[t].name,
     competition_id |-> teams[t].competition_id,
     leader_id |-> teams[t].leader_id, status |-> teams[t].status,
     members |-> Members(t), member_count |-> Cardinality(Members(t))]

\* ------------------------------------------------------------------- init
Init ==
    /\ users = << >>
    /\ next_user_id = 1
    /\ competitions = << >>
    /\ next_competition_id = 1
    /\ teams = << >>
    /\ next_team_id = 1
    /\ team_members = EmptyBag
    /\ last = Response("none", NoUser, NoTeamId, 0, 0, "", NoTeam)
    /\ inflight = EmptyBag

\* Extend the function f with the pair k -> v.
Put(f, k, v) == [x \in DOMAIN f \cup {k} |-> IF x = k THEN v ELSE f[x]]

\* Restrict the function f to the keys other than k.
Drop(f, k) == [x \in DOMAIN f \ {k} |-> f[x]]

\* The verdict of checks that let the request through.
Pass == <<0, "">>

\* --------------------------------------------------------------- Register
\* werkzeug's generate_password_hash and check_password_hash: the hash is not
\* the password, and a password checks against its own hash only.
generate_password_hash(password) == <<"hash", password>>

check_password_hash(pwhash, password) == pwhash = generate_password_hash(password)

\* The response to a register request, with the username and the email asked
\* for; u is the id of the user made, NoUser when none was.
RegisterResponse(u, username, email, r) ==
    [op |-> "register", user |-> u, team |-> NoTeamId, arg |-> 0,
     code |-> r[1], msg |-> r[2], pre |-> NoTeam,
     auth |-> IF u = NoUser THEN "none" ELSE "valid",
     username |-> username, email |-> email]

\* The users table without its unique indexes: every INSERT is accepted.
users_unique_NoIndex(us, username, email) == TRUE

\* The unique indexes on users.username and users.email: an INSERT of a value
\* that is present is rejected by the data store.
users_unique(us, username, email) ==
    \A i \in DOMAIN us : us[i].username # username /\ us[i].email # email

\* POST /api/auth/register: the lookups before the INSERT.
RegisterCheck(username, email) ==
    IF \E i \in DOMAIN users : users[i].username = username
    THEN <<409, "Username already exists">>
    ELSE IF \E i \in DOMAIN users : users[i].email = email
    THEN <<409, "Email already exists">>
    ELSE Pass

\* db.session.add(new_user); db.session.commit()
RegisterCommit(username, email, password, store_ok) ==
    IF store_ok /\ users_unique(users, username, email)
    THEN /\ users' = [x \in DOMAIN users \cup {next_user_id} |->
                         IF x = next_user_id
                         THEN [username |-> username, email |-> email,
                               password_hash |-> generate_password_hash(password)]
                         ELSE users[x]]
         /\ next_user_id' = next_user_id + 1
         /\ last' = RegisterResponse(next_user_id, username, email,
                                     <<201, "User registered successfully">>)
    ELSE \* rollback
         /\ last' = RegisterResponse(NoUser, username, email,
                                     <<500, "Failed to register user">>)
         /\ UNCHANGED <<users, next_user_id>>

RegisterPost(username, email, password) ==
    /\ next_user_id <= MaxUsers
    /\ UNCHANGED <<competitions, next_competition_id, teams, next_team_id,
                   team_members, inflight>>
    /\ IF RegisterCheck(username, email) # Pass
       THEN /\ last' = RegisterResponse(NoUser, username, email,
                                        RegisterCheck(username, email))
            /\ UNCHANGED <<users, next_user_id>>
       ELSE RegisterCommit(username, email, password, TRUE)

\* ------------------------------------------------------------------ Login
\* str(user.id), the identity put in the tokens.
str(id) == ToString(id)

\* create_access_token and create_refresh_token of flask_jwt_extended.
create_access_token(identity) == [type |-> "access", sub |-> identity]

create_refresh_token(identity) == [type |-> "refresh", sub |-> identity]

NoTokens == [access_token |-> "", refresh_token |-> ""]

\* Login reads the users table and writes nothing.
NoDbChangeOfLogin ==
    UNCHANGED <<users, next_user_id, competitions, next_competition_id,
                teams, next_team_id, team_members, inflight>>

\* The rows of User.query.filter((User.email == identifier) |
\* (User.username == identifier)).
LoginMatches(identifier) ==
    {i \in DOMAIN users :
        users[i].email = identifier \/ users[i].username = identifier}

\* POST /api/auth/login. found is the row .first() returns: the query has no
\* ORDER BY, the store returns any of the rows that match, NoUser for none.
LoginPost(identifier, password, found) ==
    /\ IF LoginMatches(identifier) = {} THEN found = NoUser
       ELSE found \in LoginMatches(identifier)
    /\ NoDbChangeOfLogin
    /\ IF found # NoUser /\ check_password_hash(users[found].password_hash, password)
       THEN last' = [op |-> "login", user |-> found, team |-> NoTeamId, arg |-> 0,
                     code |-> 200, msg |-> "Login successful", pre |-> NoTeam,
                     auth |-> "none", identifier |-> identifier,
                     password |-> password,
                     tokens |-> [access_token |-> create_access_token(str(found)),
                                 refresh_token |-> create_refresh_token(str(found))]]
       ELSE last' = [op |-> "login", user |-> NoUser, team |-> NoTeamId, arg |-> 0,
                     code |-> 401, msg |-> "Bad username or password",
                     pre |-> NoTeam, auth |-> "none", identifier |-> identifier,
                     password |-> password, tokens |-> NoTokens]

\* ------------------------------------------------------------ Competition
\* POST /api/competitions; status "" is a request without the status argument,
\* and the response record keeps the status the request gave.
CompetitionListPost(u, status) ==
    /\ u \in DOMAIN users
    /\ next_competition_id <= MaxCompetitions
    /\ competitions' = Put(competitions, next_competition_id,
                           [status |-> IF status = "" THEN "recruiting" ELSE status,
                            created_by_user_id |-> u])
    /\ next_competition_id' = next_competition_id + 1
    /\ last' = [op |-> "create_competition", user |-> u, team |-> NoTeamId,
                arg |-> next_competition_id, code |-> 201, msg |-> "",
                pre |-> NoTeam, auth |-> "valid", given |-> status]
    /\ UNCHANGED <<users, next_user_id, teams, next_team_id, team_members,
                   inflight>>

\* Competition.status as the handlers are documented to take it.
CompetitionStatuses == {"recruiting", "ongoing", "ended"}

\* The update and the delete without the test of the creator.
CompetitionCheck_AnyRequester(u, competition_id) ==
    IF competition_id \notin DOMAIN competitions
    THEN <<404, "Competition not found">>
    ELSE Pass

\* PUT and DELETE /api/competitions/<competition_id>: get_or_404, then the
\* test that the requester created the competition.
CompetitionCheck(u, competition_id) ==
    IF competition_id \notin DOMAIN competitions
    THEN <<404, "Competition not found">>
    ELSE IF competitions[competition_id].created_by_user_id # u
    THEN <<403, "Forbidden: You are not the creator of this competition">>
    ELSE Pass

\* PUT /api/competitions/<competition_id>; status "" is a request without
\* the status argument.
CompetitionResourcePut(u, competition_id, status) ==
    /\ u \in DOMAIN users
    /\ UNCHANGED <<users, next_user_id, next_competition_id, teams, next_team_id,
                   team_members, inflight>>
    /\ IF CompetitionCheck(u, competition_id) # Pass
       THEN /\ last' = Response("update_competition", u, NoTeamId, competition_id,
                                CompetitionCheck(u, competition_id)[1],
                                CompetitionCheck(u, competition_id)[2], NoTeam)
            /\ UNCHANGED competitions
       ELSE /\ competitions' =
                   IF status = "" THEN competitions
                   ELSE [competitions EXCEPT ![competition_id].status = status]
            /\ last' = Response("update_competition", u, NoTeamId, competition_id,
                                200, "", NoTeam)

\* The teams rows that reference the competition.
TeamsOf(competition_id) ==
    {t \in DOMAIN teams : teams[t].competition_id = competition_id}

\* The delete on a teams table whose competition_id may be empty: the unit of
\* work detaches the teams and deletes the competition.
CompetitionResourceDelete_Detach(u, competition_id, strict_mode) ==
    /\ u \in DOMAIN users
    /\ UNCHANGED <<users, next_user_id, next_competition_id, next_team_id,
                   team_members, inflight>>
    /\ IF CompetitionCheck(u, competition_id) # Pass
       THEN /\ last' = Response("delete_competition", u, NoTeamId, competition_id,
                                CompetitionCheck(u, competition_id)[1],
                                CompetitionCheck(u, competition_id)[2], NoTeam)
            /\ UNCHANGED <<competitions, teams>>
       ELSE /\ competitions' = Drop(competitions, competition_id)
            /\ teams' = [t \in DOMAIN teams |->
                            IF teams[t].competition_id = competition_id
                            THEN [teams[t] EXCEPT !.competition_id = 0]
                            ELSE teams[t]]
            /\ last' = Response("delete_competition", u, NoTeamId, competition_id,
                                200, "Competition deleted successfully", NoTeam)

\* DELETE /api/competitions/<competition_id>. For a competition with teams the
\* unit of work sets teams.competition_id to NULL, which the NOT NULL column
\* refuses; the store's error names the column (strict_mode, answered 500) or
\* the foreign key (answered 409).
CompetitionResourceDelete(u, competition_id, strict_mode) ==
    /\ u \in DOMAIN users
    /\ UNCHANGED <<users, next_user_id, next_competition_id, teams, next_team_id,
                   team_members, inflight>>
    /\ IF CompetitionCheck(u, competition_id) # Pass
       THEN /\ last' = Response("delete_competition", u, NoTeamId, competition_id,
                                CompetitionCheck(u, competition_id)[1],
                                CompetitionCheck(u, competition_id)[2], NoTeam)
            /\ UNCHANGED competitions
       ELSE IF TeamsOf(competition_id) # {}
       THEN /\ last' = IF strict_mode
                       THEN Response("delete_competition", u, NoTeamId, competition_id,
                                     500, "Failed to delete competition", NoTeam)
                       ELSE Response("delete_competition", u, NoTeamId, competition_id,
                                     409, "Cannot delete competition because it has associated teams.",
                                     NoTeam)
            /\ UNCHANGED competitions
       ELSE /\ competitions' = Drop(competitions, competition_id)
            /\ last' = Response("delete_competition", u, NoTeamId, competition_id,
                                200, "Competition deleted successfully", NoTeam)

\* ------------------------------------------------------------------ teams
\* The DELETE without the team in its WHERE clause.
DeleteMemberRows_AllTeams(tm, u, t) ==
    [r \in {x \in BagToSet(tm) : x.user_id # u} |-> tm[r]]

\* The DELETE without the user in its WHERE clause.
DeleteMemberRows_WholeTeam(tm, u, t) ==
    [r \in {x \in BagToSet(tm) : x.team_id # t} |-> tm[r]]

\* The rows of tm without the rows of key (u, t): DELETE FROM team_members
\* WHERE user_id = u AND team_id = t.
DeleteMemberRows(tm, u, t) ==
    [r \in {x \in BagToSet(tm) : ~(x.user_id = u /\ x.team_id = t)} |-> tm[r]]

\* The delete of a team that leaves its team_members rows behind.
DeleteTeamRows_Kept(tm, t, us) == tm

\* The delete of a team that takes one member's rows only.
DeleteTeamRows_OneMember(tm, t, us) ==
    [r \in {x \in BagToSet(tm) :
                ~(x.team_id = t /\ us # {} /\ x.user_id = CHOOSE u \in us : TRUE)}
        |-> tm[r]]

\* The rows of tm without the rows of team t that belong to the users in us.
DeleteTeamRows(tm, t, us) ==
    [r \in {x \in BagToSet(tm) : ~(x.team_id = t /\ x.user_id \in us)} |-> tm[r]]

\* What the handlers below leave alone.
NoDbChange == UNCHANGED <<users, next_user_id, competitions, next_competition_id,
                          teams, next_team_id, team_members>>

Respond(op, u, t, arg, r) ==
    last' = Response(op, u, t, arg, r[1], r[2], Snapshot(t))

\* ---- POST /api/teams
\* A request body without the name argument, and one without competition_id;
\* "" is the empty name and 0 the id 0, which the body does hold.
NoName == "(no name)"

NoCompetitionId == -1

\* The create without the lookup of the competition.
CreateCheck_NoLookup(name, competition_id) ==
    IF name = NoName \/ competition_id = NoCompetitionId
    THEN <<400, "Validation error">>
    ELSE Pass

\* team_creation_parser.parse_args() asks for both arguments to be there and
\* takes any string and any integer.
CreateCheck(name, competition_id) ==
    IF name = NoName \/ competition_id = NoCompetitionId
    THEN <<400, "Validation error">>       \* a required argument is missing
    ELSE IF competition_id \notin DOMAIN competitions
    THEN <<404, "Competition not found">>  \* Competition.query.get_or_404
    ELSE Pass

\* A team created closed.
NewTeam_Closed(u, name, competition_id) ==
    [name |-> name, competition_id |-> competition_id, leader_id |-> u,
     status |-> "closed"]

NewTeam(u, name, competition_id) ==
    [name |-> name, competition_id |-> competition_id, leader_id |-> u,
     status |-> "open"]

TeamListPost(u, name, competition_id, store_ok) ==
    /\ u \in DOMAIN users
    /\ UNCHANGED <<users, next_user_id, competitions, next_competition_id,
                   inflight>>
    /\ IF CreateCheck(name, competition_id) # Pass
       THEN /\ Respond("create", u, NoTeamId, competition_id,
                       CreateCheck(name, competition_id))
            /\ UNCHANGED <<teams, next_team_id, team_members>>
       ELSE IF store_ok /\ team_members_association(team_members, u, next_team_id)
       THEN /\ teams' = Put(teams, next_team_id, NewTeam(u, name, competition_id))
            /\ team_members' = team_members (+) SetToBag({MemberRow(u, next_team_id)})
            /\ next_team_id' = next_team_id + 1
            /\ last' = Response("create", u, next_team_id, competition_id, 201,
                                "", NoTeam)
       ELSE \* commit rejected: rollback
            /\ Respond("create", u, NoTeamId, competition_id,
                       <<500, "Failed to create team">>)
            /\ UNCHANGED <<teams, next_team_id, team_members>>

\* ---- GET /api/teams/<team_id>
\* The get answered from the ids handed out, deleted teams included.
GetCheck_Stale(t) ==
    IF t < next_team_id THEN <<200, "">> ELSE <<404, "Team not found">>

GetCheck(t) == IF t \in DOMAIN teams THEN <<200, "">> ELSE <<404, "Team not found">>

TeamResourceGet(t) ==
    /\ Respond("get", NoUser, t, 0, GetCheck(t))
    /\ NoDbChange
    /\ UNCHANGED inflight

\* ---- GET /api/teams?competition_id=: the ids listed on the first page,
\* which holds more teams than MaxTeams; competition_id 0 is no filter.
TeamListGet(competition_id) ==
    {t \in DOMAIN teams :
        competition_id = 0 \/ teams[t].competition_id = competition_id}

\* ---- PUT /api/teams/<team_id>: TeamResource defines get and delete only,
\* the route answers any other method 405.
TeamResourcePut(u, t, status) ==
    /\ Respond("update", u, t, 0, <<405, "Method Not Allowed">>)
    /\ NoDbChange
    /\ UNCHANGED inflight

\* ---- POST /api/teams/<team_id>/join
\* The join that asks the competition of the team to be recruiting.
JoinCheck_Recruiting(u, t) ==
    IF t \notin DOMAIN teams THEN <<404, "Team not found">>
    ELSE IF is_member(t, u) THEN <<409, "You are already a member">>
    ELSE IF teams[t].status # "open" THEN <<403, "Team not open for new members">>
    ELSE IF /\ teams[t].competition_id \in DOMAIN competitions
            /\ competitions[teams[t].competition_id].status # "recruiting"
    THEN <<403, "Competition is not recruiting">>
    ELSE Pass

\* "Already a member" tested on the leader role, not on the member set.
JoinCheck_RoleOnly(u, t) ==
    IF t \notin DOMAIN teams THEN <<404, "Team not found">>
    ELSE IF teams[t].leader_id = u THEN <<409, "You are already a member">>
    ELSE IF teams[t].status # "open" THEN <<403, "Team not open for new members">>
    ELSE Pass

\* The join without the test of the team's status.
JoinCheck_NoStatus(u, t) ==
    IF t \notin DOMAIN teams THEN <<404, "Team not found">>
    ELSE IF is_member(t, u) THEN <<409, "You are already a member">>
    ELSE Pass

JoinCheck(u, t) ==
    IF t \notin DOMAIN teams THEN <<404, "Team not found">>
    ELSE IF is_member(t, u) THEN <<409, "You are already a member">>
    ELSE IF teams[t].status # "open" THEN <<403, "Team not open for new members">>
    ELSE Pass

\* The INSERT of a key that is present taken for a success (INSERT IGNORE).
JoinCommit_Upsert(u, t, store_ok, fk_enforced) ==
    /\ UNCHANGED <<users, next_user_id, competitions, next_competition_id,
                   teams, next_team_id>>
    /\ IF ~store_ok \/ t \notin DOMAIN teams
       THEN /\ Respond("join", u, t, 0, <<500, "Failed to join team">>)
            /\ UNCHANGED team_members
       ELSE /\ team_members' =
                   IF team_members_association(team_members, u, t)
                   THEN team_members (+) SetToBag({MemberRow(u, t)})
                   ELSE team_members
            /\ Respond("join", u, t, 0, <<200, "Successfully joined the team">>)

\* The join that closes the team once it has two members.
JoinCommit_AutoClose(u, t, store_ok, fk_enforced) ==
    /\ UNCHANGED <<users, next_user_id, competitions, next_competition_id,
                   next_team_id>>
    /\ IF ~store_ok \/ ~team_members_association(team_members, u, t)
          \/ t \notin DOMAIN teams
       THEN /\ Respond("join", u, t, 0, <<500, "Failed to join team">>)
            /\ UNCHANGED <<teams, team_members>>
       ELSE /\ team_members' = team_members (+) SetToBag({MemberRow(u, t)})
            /\ teams' = [teams EXCEPT ![t].status = "closed"]
            /\ Respond("join", u, t, 0, <<200, "Successfully joined the team">>)

\* team.members.append(user_to_join); db.session.commit()
JoinCommit(u, t, store_ok, fk_enforced) ==
    /\ UNCHANGED <<users, next_user_id, competitions, next_competition_id,
                   teams, next_team_id>>
    /\ IF ~store_ok \/ ~team_members_association(team_members, u, t)
       THEN /\ Respond("join", u, t, 0, <<500, "Failed to join team">>)
            /\ UNCHANGED team_members
       ELSE IF t \notin DOMAIN teams
       THEN \* the team went away after the checks
            /\ Respond("join", u, t, 0, <<500, "Failed to join team">>)
            /\ team_members' = IF fk_enforced THEN team_members
                               ELSE team_members (+) SetToBag({MemberRow(u, t)})
       ELSE /\ team_members' = team_members (+) SetToBag({MemberRow(u, t)})
            /\ Respond("join", u, t, 0, <<200, "Successfully joined the team">>)

\* The join that adds the first user of the users table, whoever asks.
TeamJoinPost_FirstUser(u, t, store_ok) ==
    /\ u \in DOMAIN users
    /\ UNCHANGED inflight
    /\ IF JoinCheck(1, t) # Pass
       THEN Respond("join", u, t, 0, JoinCheck(1, t)) /\ NoDbChange
       ELSE /\ team_members' = team_members (+) SetToBag({MemberRow(1, t)})
            /\ Respond("join", u, t, 0, <<200, "Successfully joined the team">>)
            /\ UNCHANGED <<users, next_user_id, competitions, next_competition_id,
                           teams, next_team_id>>

TeamJoinPost(u, t, store_ok) ==
    /\ u \in DOMAIN users
    /\ UNCHANGED inflight
    /\ IF JoinCheck(u, t) # Pass
       THEN Respond("join", u, t, 0, JoinCheck(u, t)) /\ NoDbChange
       ELSE JoinCommit(u, t, store_ok, TRUE)

\* ---- DELETE /api/teams/<team_id>
\* The disband without the test that the requester is the leader.
DisbandCheck_AnyRequester(u, t) ==
    IF t \notin DOMAIN teams THEN <<404, "Team not found">> ELSE Pass

DisbandCheck(u, t) ==
    IF t \notin DOMAIN teams THEN <<404, "Team not found">>
    ELSE IF teams[t].leader_id # u
    THEN <<403, "Forbidden: Only the team leader can disband the team">>
    ELSE Pass

\* The delete whose failed commit is not rolled back: the team_members rows
\* are gone and the teams row stays.
DeleteTeamCommit_NoRollback(op, u, t, seen, okmsg, failmsg, store_ok, fk_enforced, sane_rowcount) ==
    /\ UNCHANGED <<users, next_user_id, competitions, next_competition_id,
                   next_team_id>>
    /\ IF ~store_ok
       THEN /\ Respond(op, u, t, 0, <<500, failmsg>>)
            /\ team_members' = DeleteTeamRows(team_members, t, seen)
            /\ UNCHANGED teams
       ELSE /\ team_members' = DeleteTeamRows(team_members, t, seen)
            /\ teams' = Drop(teams, t)
            /\ Respond(op, u, t, 0, <<200, okmsg>>)

\* db.session.delete(team); db.session.commit(): the team_members rows of the
\* members in seen, then the teams row.
DeleteTeamCommit(op, u, t, seen, okmsg, failmsg, store_ok, fk_enforced, sane_rowcount) ==
    /\ UNCHANGED <<users, next_user_id, competitions, next_competition_id,
                   next_team_id>>
    /\ IF \/ ~store_ok
          \/ sane_rowcount /\ (t \notin DOMAIN teams \/ ~(seen \subseteq Members(t)))
          \/ fk_enforced /\ ~(Members(t) \subseteq seen)
       THEN \* rollback
            /\ Respond(op, u, t, 0, <<500, failmsg>>)
            /\ UNCHANGED <<teams, team_members>>
       ELSE /\ team_members' = DeleteTeamRows(team_members, t, seen)
            /\ teams' = Drop(teams, t)
            /\ Respond(op, u, t, 0, <<200, okmsg>>)

TeamResourceDelete(u, t, store_ok) ==
    /\ u \in DOMAIN users
    /\ UNCHANGED inflight
    /\ IF DisbandCheck(u, t) # Pass
       THEN Respond("disband", u, t, 0, DisbandCheck(u, t)) /\ NoDbChange
       ELSE DeleteTeamCommit("disband", u, t, Members(t),
                             "Team disbanded successfully", "Failed to disband team",
                             store_ok, TRUE, TRUE)

\* ---- POST /api/teams/<team_id>/leave
\* The leave without the guard on a captain who has other members.
LeaveCheck_NoCaptainGuard(u, t) ==
    IF t \notin DOMAIN teams THEN <<404, "Team not found">>
    ELSE IF ~is_member(t, u) THEN <<403, "You are not a member of this team">>
    ELSE Pass

\* The leave without the test that the requester is a member.
LeaveCheck_NoMemberTest(u, t) ==
    IF t \notin DOMAIN teams THEN <<404, "Team not found">>
    ELSE IF teams[t].leader_id = u /\ Cardinality(Members(t)) > 1
    THEN <<403, "Captain must transfer leadership or disband team">>
    ELSE Pass

LeaveCheck(u, t) ==
    IF t \notin DOMAIN teams THEN <<404, "Team not found">>
    ELSE IF ~is_member(t, u) THEN <<403, "You are not a member of this team">>
    ELSE IF teams[t].leader_id = u /\ Cardinality(Members(t)) > 1
    THEN <<403, "Captain must transfer leadership or disband team">>
    ELSE Pass

\* The captain leaving like any member: the team stays, without members.
LeaveDisbands_Never(u, t) == FALSE

\* The leave of the captain who is the last member deletes the team.
LeaveDisbands(u, t) == teams[t].leader_id = u

\* The removal that deletes the requester's row in place of the target's.
RemoveRowCommit_Requester(op, u, t, target, okmsg, failmsg, store_ok, sane_rowcount) ==
    /\ UNCHANGED <<users, next_user_id, competitions, next_competition_id,
                   teams, next_team_id>>
    /\ team_members' = DeleteMemberRows(team_members, u, t)
    /\ Respond(op, u, t, IF op = "remove" THEN target ELSE 0, <<200, okmsg>>)

\* team.members.remove(user); db.session.commit()
RemoveRowCommit(op, u, t, target, okmsg, failmsg, store_ok, sane_rowcount) ==
    /\ UNCHANGED <<users, next_user_id, competitions, next_competition_id,
                   teams, next_team_id>>
    /\ IF ~store_ok \/ (sane_rowcount /\ RowCount(team_members, target, t) # 1)
       THEN /\ Respond(op, u, t, IF op = "remove" THEN target ELSE 0, <<500, failmsg>>)
            /\ UNCHANGED team_members
       ELSE /\ team_members' = DeleteMemberRows(team_members, target, t)
            /\ Respond(op, u, t, IF op = "remove" THEN target ELSE 0, <<200, okmsg>>)

TeamLeavePost(u, t, store_ok) ==
    /\ u \in DOMAIN users
    /\ UNCHANGED inflight
    /\ IF LeaveCheck(u, t) # Pass
       THEN Respond("leave", u, t, 0, LeaveCheck(u, t)) /\ NoDbChange
       ELSE IF LeaveDisbands(u, t)
       THEN DeleteTeamCommit("leave", u, t, Members(t),
                             "Team disbanded as captain left", "Failed to disband",
                             store_ok, TRUE, TRUE)
       ELSE RemoveRowCommit("leave", u, t, u, "Successfully left the team",
                            "Failed to leave", store_ok, TRUE)

\* ---- DELETE /api/teams/<team_id>/members/<user_id_to_remove>
\* The removal without the test that the target is the captain.
RemoveCheck_SelfAllowed(u, t, user_id_to_remove) ==
    IF t \notin DOMAIN teams THEN <<404, "Team not found">>
    ELSE IF teams[t].leader_id # u
    THEN <<403, "Forbidden: Only leader can remove members">>
    ELSE IF user_id_to_remove \notin DOMAIN users THEN <<404, "User not found">>
    ELSE IF ~is_member(t, user_id_to_remove)
    THEN <<404, "User is not a member of this team">>
    ELSE Pass

\* The removal open to every member of the team.
RemoveCheck_MembersAllowed(u, t, user_id_to_remove) ==
    IF t \notin DOMAIN teams THEN <<404, "Team not found">>
    ELSE IF ~is_member(t, u)
    THEN <<403, "Forbidden: Only leader can remove members">>
    ELSE IF user_id_to_remove \notin DOMAIN users THEN <<404, "User not found">>
    ELSE IF ~is_member(t, user_id_to_remove)
    THEN <<404, "User is not a member of this team">>
    ELSE IF user_id_to_remove = teams[t].leader_id
    THEN <<403, "Captain cannot remove themselves">>
    ELSE Pass

\* The removal without the test that the requester is the leader.
RemoveCheck_AnyRequester(u, t, user_id_to_remove) ==
    IF t \notin DOMAIN teams THEN <<404, "Team not found">>
    ELSE IF user_id_to_remove \notin DOMAIN users THEN <<404, "User not found">>
    ELSE IF ~is_member(t, user_id_to_remove)
    THEN <<404, "User is not a member of this team">>
    ELSE IF user_id_to_remove = teams[t].leader_id
    THEN <<403, "Captain cannot remove themselves">>
    ELSE Pass

\* The removal that takes a target outside the team for a member.
RemoveCheck_NoTargetTest(u, t, user_id_to_remove) ==
    IF t \notin DOMAIN teams THEN <<404, "Team not found">>
    ELSE IF teams[t].leader_id # u
    THEN <<403, "Forbidden: Only leader can remove members">>
    ELSE IF user_id_to_remove = teams[t].leader_id
    THEN <<403, "Captain cannot remove themselves">>
    ELSE Pass

RemoveCheck(u, t, user_id_to_remove) ==
    IF t \notin DOMAIN teams THEN <<404, "Team not found">>
    ELSE IF teams[t].leader_id # u
    THEN <<403, "Forbidden: Only leader can remove members">>
    ELSE IF user_id_to_remove \notin DOMAIN users THEN <<404, "User not found">>
    ELSE IF ~is_member(t, user_id_to_remove)
    THEN <<404, "User is not a member of this team">>
    ELSE IF user_id_to_remove = teams[t].leader_id
    THEN <<403, "Captain cannot remove themselves">>
    ELSE Pass

TeamMemberRemoveDelete(u, t, user_id_to_remove, store_ok) ==
    /\ u \in DOMAIN users
    /\ UNCHANGED inflight
    /\ IF RemoveCheck(u, t, user_id_to_remove) # Pass
       THEN /\ Respond("remove", u, t, user_id_to_remove,
                       RemoveCheck(u, t, user_id_to_remove))
            /\ NoDbChange
       ELSE RemoveRowCommit("remove", u, t, user_id_to_remove, "removed successfully",
                            "Failed to remove member", store_ok, TRUE)

\* ---- update_team_metadata(requester, team_id, fields): leader-only, sets
\* the status directly, no check of the transition.
UpdateTeamMetadata(u, t, status) ==
    /\ u \in DOMAIN users
    /\ UNCHANGED <<users, next_user_id, competitions, next_competition_id,
                   next_team_id, team_members, inflight>>
    /\ IF t \notin DOMAIN teams
       THEN Respond("update", u, t, 0, <<404, "Team not found">>) /\ UNCHANGED teams
       ELSE IF teams[t].leader_id # u
       THEN Respond("update", u, t, 0, <<403, "Forbidden">>) /\ UNCHANGED teams
       ELSE /\ teams' = [teams EXCEPT ![t].status = status]
            /\ Respond("update", u, t, 0, <<200, "">>)

\* ------------------------------------------------------------------- spec
\* Requests handled one at a time.
Register == \E i \in 1..MaxUsers : i = next_user_id /\ RegisterPost(i, i, i)

CreateCompetition == CompetitionListPost(1, "")

CreateTeam ==
    /\ next_team_id <= MaxTeams
    /\ \E u \in 1..MaxUsers, name \in {NoName, "Alpha"}, c \in 0..MaxCompetitions :
           TeamListPost(u, name, c, TRUE)

Get == \E t \in 1..MaxTeams : TeamResourceGet(t)

Join == \E u \in 1..MaxUsers, t \in 1..MaxTeams : TeamJoinPost(u, t, TRUE)

Leave == \E u \in 1..MaxUsers, t \in 1..MaxTeams : TeamLeavePost(u, t, TRUE)

Remove ==
    \E u \in 1..MaxUsers, t \in 1..MaxTeams, target \in 1..MaxUsers :
        TeamMemberRemoveDelete(u, t, target, TRUE)

Disband == \E u \in 1..MaxUsers, t \in 1..MaxTeams : TeamResourceDelete(u, t, TRUE)

Update ==
    \E u \in 1..MaxUsers, t \in 1..MaxTeams, s \in TeamStatuses :
        UpdateTeamMetadata(u, t, s)

Next ==
    \/ Register
    \/ CreateCompetition
    \/ CreateTeam
    \/ Get
    \/ Join
    \/ Leave
    \/ Remove
    \/ Disband
    \/ Update

Spec == Init /\ [][Next]_vars

\* --------------------------------------------------------- authentication
\* The handlers decorated with @jwt_required().
ProtectedOps == {"create", "join", "leave", "remove", "disband"}

\* What a request carries in place of a valid access token.
BadTokens == {"missing", "invalid", "expired"}

\* Every token that does not verify answered by the unauthorized callback.
jwt_required_Always401(token) ==
    IF token \in BadTokens THEN <<401, "Missing Authorization Header">> ELSE Pass

\* @jwt_required() with the callbacks of create_app: unauthorized_loader,
\* invalid_token_loader, expired_token_loader.
jwt_required(token) ==
    IF token = "missing" THEN <<401, "Missing Authorization Header">>
    ELSE IF token = "invalid" THEN <<422, "Invalid token">>
    ELSE IF token = "expired" THEN <<401, "Token has expired">>
    ELSE Pass

\* A request to a decorated handler that @jwt_required() turns away: the
\* handler's body does not run.
Rejected(op, token, t, arg) ==
    /\ jwt_required(token) # Pass
    /\ last' = [Response(op, NoUser, t, arg, jwt_required(token)[1],
                         jwt_required(token)[2], Snapshot(t))
                   EXCEPT !.auth = token]
    /\ NoDbChange
    /\ UNCHANGED inflight

\* GET /api/teams: no decorator, the request's token is not looked at.
TeamListGetRequest(competition_id) ==
    /\ last' = Response("list", NoUser, NoTeamId, competition_id, 200, "", NoTeam)
    /\ NoDbChange
    /\ UNCHANGED inflight

Unauthenticated ==
    \E token \in BadTokens :
        \/ \E c \in 0..MaxCompetitions : Rejected("create", token, NoTeamId, c)
        \/ \E op \in {"join", "leave", "disband"}, t \in 1..MaxTeams :
               Rejected(op, token, t, 0)
        \/ \E t \in 1..MaxTeams, target \in 1..MaxUsers :
               Rejected("remove", token, t, target)

List == \E c \in 0..MaxCompetitions : TeamListGetRequest(c)

\* Requests with and without a valid access token, handled one at a time.
NextAuth ==
    \/ Register
    \/ CreateCompetition
    \/ CreateTeam
    \/ Get
    \/ List
    \/ Join
    \/ Leave
    \/ Remove
    \/ Disband
    \/ Unauthenticated

SpecAuth == Init /\ [][NextAuth]_vars

\* One competition is set up.
ConcCreateCompetition == next_competition_id = 1 /\ CreateCompetition

\* ------------------------------------------------------------ competitions
\* Requests on one team and on the competitions, handled one at a time.
UpdateCompetition ==
    \E u \in 1..MaxUsers, c \in 1..MaxCompetitions,
       status \in {"", "ongoing", "ended"} :
        CompetitionResourcePut(u, c, status)

DeleteCompetition ==
    \E u \in 1..MaxUsers, c \in 1..MaxCompetitions, strict_mode \in BOOLEAN :
        CompetitionResourceDelete(u, c, strict_mode)

CompCreateCompetition ==
    \E u \in 1..MaxUsers, status \in {"", "ongoing"} : CompetitionListPost(u, status)

CompCreateTeam ==
    /\ next_team_id = 1
    /\ \E u \in 1..MaxUsers, c \in 1..MaxCompetitions :
           TeamListPost(u, "Alpha", c, TRUE)

PutTeam ==
    \E u \in 1..MaxUsers, t \in 1..MaxTeams, s \in TeamStatuses :
        u \in DOMAIN users /\ TeamResourcePut(u, t, s)

NextComp ==
    \/ Register
    \/ CompCreateCompetition
    \/ UpdateCompetition
    \/ DeleteCompetition
    \/ CompCreateTeam
    \/ PutTeam
    \/ Join
    \/ Leave
    \/ Remove
    \/ Disband

SpecComp == Init /\ [][NextComp]_vars

\* ----------------------------------------------------------- store failures
\* Requests handled one at a time on a store that may refuse a commit.
StoreCreateTeam ==
    /\ next_team_id <= MaxTeams
    /\ \E u \in 1..MaxUsers, store_ok \in BOOLEAN :
           TeamListPost(u, "Alpha", 1, store_ok)

StoreJoin ==
    \E u \in 1..MaxUsers, t \in 1..MaxTeams, store_ok \in BOOLEAN :
        TeamJoinPost(u, t, store_ok)

StoreLeave ==
    \E u \in 1..MaxUsers, t \in 1..MaxTeams, store_ok \in BOOLEAN :
        TeamLeavePost(u, t, store_ok)

StoreRemove ==
    \E u \in 1..MaxUsers, t \in 1..MaxTeams, target \in 1..MaxUsers,
       store_ok \in BOOLEAN :
        TeamMemberRemoveDelete(u, t, target, store_ok)

StoreDisband ==
    \E u \in 1..MaxUsers, t \in 1..MaxTeams, store_ok \in BOOLEAN :
        TeamResourceDelete(u, t, store_ok)

NextStore ==
    \/ Register
    \/ ConcCreateCompetition
    \/ StoreCreateTeam
    \/ StoreJoin
    \/ StoreLeave
    \/ StoreRemove
    \/ StoreDisband

SpecStore == Init /\ [][NextStore]_vars

\* ------------------------------------------------------------ several teams
\* Requests on several teams of one competition, handled one at a time.
CrossCreateTeam ==
    /\ next_team_id <= MaxCrossTeams
    /\ \E u \in 1..MaxUsers : TeamListPost(u, "Alpha", 1, TRUE)

CrossJoin == \E u \in 1..MaxUsers, t \in 1..MaxCrossTeams : TeamJoinPost(u, t, TRUE)

CrossLeave == \E u \in 1..MaxUsers, t \in 1..MaxCrossTeams : TeamLeavePost(u, t, TRUE)

CrossRemove ==
    \E u \in 1..MaxUsers, t \in 1..MaxCrossTeams, target \in 1..MaxUsers :
        TeamMemberRemoveDelete(u, t, target, TRUE)

CrossDisband ==
    \E u \in 1..MaxUsers, t \in 1..MaxCrossTeams : TeamResourceDelete(u, t, TRUE)

NextCross ==
    \/ Register
    \/ ConcCreateCompetition
    \/ CrossCreateTeam
    \/ CrossJoin
    \/ CrossLeave
    \/ CrossRemove
    \/ CrossDisband

SpecCross == Init /\ [][NextCross]_vars

\* ------------------------------------------------------------ concurrency
\* Requests served by concurrent workers: a handler runs its checks on the
\* rows it reads, and its commit reaches the data store later, after the
\* commits of other requests.
Pending(op, u, t, arg, seen) ==
    [op |-> op, user |-> u, team |-> t, arg |-> arg, seen |-> seen]

Begin(op, u, t, arg, check, seen) ==
    /\ u \in DOMAIN users
    /\ BagCardinality(inflight) < MaxInflight
    /\ NoDbChange
    /\ IF check # Pass
       THEN Respond(op, u, t, arg, check) /\ UNCHANGED inflight
       ELSE /\ inflight' = inflight (+) SetToBag({Pending(op, u, t, arg, seen)})
            /\ UNCHANGED last

BeginJoin(u, t) == Begin("join", u, t, 0, JoinCheck(u, t), {})

BeginLeave(u, t) == Begin("leave", u, t, 0, LeaveCheck(u, t), Members(t))

BeginRemove(u, t, target) ==
    Begin("remove", u, t, target, RemoveCheck(u, t, target), {})

BeginDisband(u, t) == Begin("disband", u, t, 0, DisbandCheck(u, t), Members(t))

Done(req) ==
    /\ BagIn(req, inflight)
    /\ inflight' = inflight (-) SetToBag({req})

FinishJoin(req, fk_enforced) ==
    /\ Done(req)
    /\ req.op = "join"
    /\ JoinCommit(req.user, req.team, TRUE, fk_enforced)

\* The members the flush deletes are the ones read with the checks or the
\* ones there at the commit, as the isolation level of the store has it.
FinishDisband(req, seen, fk_enforced, sane_rowcount) ==
    /\ Done(req)
    /\ req.op = "disband"
    /\ seen \in {req.seen, Members(req.team)}
    /\ DeleteTeamCommit("disband", req.user, req.team, seen,
                        "Team disbanded successfully", "Failed to disband team",
                        TRUE, fk_enforced, sane_rowcount)

FinishLeave(req, seen, fk_enforced, sane_rowcount) ==
    /\ Done(req)
    /\ req.op = "leave"
    /\ seen \in {req.seen, Members(req.team)}
    /\ IF req.seen = {req.user}
       THEN DeleteTeamCommit("leave", req.user, req.team, seen,
                             "Team disbanded as captain left", "Failed to disband",
                             TRUE, fk_enforced, sane_rowcount)
       ELSE RemoveRowCommit("leave", req.user, req.team, req.user,
                            "Successfully left the team", "Failed to leave",
                            TRUE, sane_rowcount)

FinishRemove(req, sane_rowcount) ==
    /\ Done(req)
    /\ req.op = "remove"
    /\ RemoveRowCommit("remove", req.user, req.team, req.arg, "removed successfully",
                       "Failed to remove member", TRUE, sane_rowcount)

ConcJoin == \E u \in 1..MaxUsers, t \in 1..MaxTeams : BeginJoin(u, t)

ConcLeave == \E u \in 1..MaxUsers, t \in 1..MaxTeams : BeginLeave(u, t)

ConcRemove ==
    \E u \in 1..MaxUsers, t \in 1..MaxTeams, target \in 1..MaxUsers :
        BeginRemove(u, t, target)

ConcDisband == \E u \in 1..MaxUsers, t \in 1..MaxTeams : BeginDisband(u, t)

CommitJoin == \E req \in BagToSet(inflight), fk \in BOOLEAN : FinishJoin(req, fk)

CommitLeave ==
    \E req \in BagToSet(inflight), seen \in SUBSET (1..MaxUsers), fk, sane \in BOOLEAN :
        FinishLeave(req, seen, fk, sane)

CommitRemove == \E req \in BagToSet(inflight), sane \in BOOLEAN : FinishRemove(req, sane)

CommitDisband ==
    \E req \in BagToSet(inflight), seen \in SUBSET (1..MaxUsers), fk, sane \in BOOLEAN :
        FinishDisband(req, seen, fk, sane)

\* The races on one team: one competition and one team are set up.
ConcCreateTeam == next_team_id = 1 /\ CreateTeam

NextConc ==
    \/ Register
    \/ ConcCreateCompetition
    \/ ConcCreateTeam
    \/ ConcJoin
    \/ ConcLeave
    \/ ConcRemove
    \/ ConcDisband
    \/ CommitJoin
    \/ CommitLeave
    \/ CommitRemove
    \/ CommitDisband

SpecConc == Init /\ [][NextConc]_vars

\* ------------------------------------------------------- legacy blueprint
\* The handlers of app/routes/teams.py, on the same tables.
create_team_check(name, competition_id) ==
    IF name = NoName /\ competition_id = NoCompetitionId
    THEN <<400, "Missing JSON in request">>
    ELSE IF name = NoName \/ name = ""
    THEN <<400, "Team name is required">>
    ELSE IF competition_id = NoCompetitionId \/ competition_id = 0
    THEN <<400, "competition_id is required in request body">>
    ELSE IF competition_id \notin DOMAIN competitions
    THEN <<404, "Competition not found">>
    ELSE Pass

create_team(u, name, competition_id, store_ok) ==
    /\ u \in DOMAIN users
    /\ UNCHANGED <<users, next_user_id, competitions, next_competition_id,
                   inflight>>
    /\ IF create_team_check(name, competition_id) # Pass
       THEN /\ Respond("create", u, NoTeamId, competition_id,
                       create_team_check(name, competition_id))
            /\ UNCHANGED <<teams, next_team_id, team_members>>
       ELSE IF store_ok /\ team_members_association(team_members, u, next_team_id)
       THEN /\ teams' = Put(teams, next_team_id, NewTeam(u, name, competition_id))
            /\ team_members' = team_members (+) SetToBag({MemberRow(u, next_team_id)})
            /\ next_team_id' = next_team_id + 1
            /\ last' = Response("create", u, next_team_id, competition_id, 201,
                                "Team created successfully", NoTeam)
       ELSE /\ Respond("create", u, NoTeamId, competition_id,
                       <<500, "Failed to create team">>)
            /\ UNCHANGED <<teams, next_team_id, team_members>>

join_team_check(u, t) ==
    IF t \notin DOMAIN teams THEN <<404, "Team not found">>
    ELSE IF is_member(t, u) THEN <<409, "You are already a member of this team">>
    ELSE IF teams[t].status # "open"
    THEN <<403, "Team is not open for new members">>
    ELSE Pass

join_team(u, t, store_ok) ==
    /\ u \in DOMAIN users
    /\ UNCHANGED inflight
    /\ IF join_team_check(u, t) # Pass
       THEN Respond("join", u, t, 0, join_team_check(u, t)) /\ NoDbChange
       ELSE JoinCommit(u, t, store_ok, TRUE)

leave_team_check(u, t) ==
    IF t \notin DOMAIN teams THEN <<404, "Team not found">>
    ELSE IF ~is_member(t, u) THEN <<403, "You are not a member of this team">>
    ELSE IF teams[t].leader_id = u /\ Cardinality(Members(t)) > 1
    THEN <<403, "Captain cannot leave the team if there are other members">>
    ELSE Pass

leave_team(u, t, store_ok) ==
    /\ u \in DOMAIN users
    /\ UNCHANGED inflight
    /\ IF leave_team_check(u, t) # Pass
       THEN Respond("leave", u, t, 0, leave_team_check(u, t)) /\ NoDbChange
       ELSE IF teams[t].leader_id = u
       THEN DeleteTeamCommit("leave", u, t, Members(t),
                             "Team disbanded as the last member (captain) left.",
                             "Failed to disband team", store_ok, TRUE, TRUE)
       ELSE RemoveRowCommit("leave", u, t, u, "Successfully left the team",
                            "Failed to leave team", store_ok, TRUE)

remove_member_check(u, t, user_id_to_remove) ==
    IF t \notin DOMAIN teams THEN <<404, "Team not found">>
    ELSE IF teams[t].leader_id # u
    THEN <<403, "Forbidden: Only the team leader can remove members">>
    ELSE IF user_id_to_remove \notin DOMAIN users
    THEN <<404, "User to remove not found">>
    ELSE IF ~is_member(t, user_id_to_remove)
    THEN <<404, "User is not a member of this team">>
    ELSE IF user_id_to_remove = u
    THEN <<403, "Captain cannot remove themselves">>
    ELSE Pass

remove_member_from_team(u, t, user_id_to_remove, store_ok) ==
    /\ u \in DOMAIN users
    /\ UNCHANGED inflight
    /\ IF remove_member_check(u, t, user_id_to_remove) # Pass
       THEN /\ Respond("remove", u, t, user_id_to_remove,
                       remove_member_check(u, t, user_id_to_remove))
            /\ NoDbChange
       ELSE RemoveRowCommit("remove", u, t, user_id_to_remove,
                            "removed from the team successfully",
                            "Failed to remove member", store_ok, TRUE)

disband_team_check(u, t) ==
    IF t \notin DOMAIN teams THEN <<404, "Team not found">>
    ELSE IF teams[t].leader_id # u
    THEN <<403, "Forbidden: Only the team leader can disband the team">>
    ELSE Pass

disband_team(u, t, store_ok) ==
    /\ u \in DOMAIN users
    /\ UNCHANGED inflight
    /\ IF disband_team_check(u, t) # Pass
       THEN Respond("disband", u, t, 0, disband_team_check(u, t)) /\ NoDbChange
       ELSE DeleteTeamCommit("disband", u, t, Members(t),
                             "Team disbanded successfully", "Failed to disband team",
                             store_ok, TRUE, TRUE)

\* The names and the competition ids that requests to create a team carry.
TeamNames == {NoName, "", "Alpha"}

CompetitionIds == {NoCompetitionId} \cup (0..MaxCompetitions)

\* Requests on one team, served by the legacy handlers and by the RESTX
\* handlers, one at a time.
LegacyCreateTeam ==
    /\ next_team_id = 1
    /\ \E u \in 1..MaxUsers, name \in TeamNames, c \in CompetitionIds :
           create_team(u, name, c, TRUE)

RestxCreateTeam ==
    /\ next_team_id = 1
    /\ \E u \in 1..MaxUsers, name \in TeamNames, c \in CompetitionIds :
           TeamListPost(u, name, c, TRUE)

LegacyJoin == \E u \in 1..MaxUsers, t \in 1..MaxTeams : join_team(u, t, TRUE)

LegacyLeave == \E u \in 1..MaxUsers, t \in 1..MaxTeams : leave_team(u, t, TRUE)

LegacyRemove ==
    \E u \in 1..MaxUsers, t \in 1..MaxTeams, target \in 1..MaxUsers :
        remove_member_from_team(u, t, target, TRUE)

LegacyDisband == \E u \in 1..MaxUsers, t \in 1..MaxTeams : disband_team(u, t, TRUE)

NextLegacy ==
    \/ Register
    \/ ConcCreateCompetition
    \/ LegacyCreateTeam
    \/ RestxCreateTeam
    \/ LegacyJoin
    \/ Join
    \/ LegacyLeave
    \/ Leave
    \/ LegacyRemove
    \/ Remove
    \/ LegacyDisband
    \/ Disband

SpecLegacy == Init /\ [][NextLegacy]_vars

\* ---------------------------------------------------- register and login
\* Registrations served by concurrent workers, and logins. Usernames and
\* emails are strings of one kind: nothing tells one from the other.
Identifiers == {"a", "b"}

Passwords == {"p", "q"}

PendingRegister(username, email, password) ==
    [op |-> "register", username |-> username, email |-> email,
     password |-> password]

BeginRegister(username, email, password) ==
    /\ next_user_id <= MaxUsers
    /\ BagCardinality(inflight) < MaxInflight
    /\ NoDbChange
    /\ IF RegisterCheck(username, email) # Pass
       THEN /\ last' = RegisterResponse(NoUser, username, email,
                                        RegisterCheck(username, email))
            /\ UNCHANGED inflight
       ELSE /\ inflight' = inflight (+)
                   SetToBag({PendingRegister(username, email, password)})
            /\ UNCHANGED last

FinishRegister(req) ==
    /\ Done(req)
    /\ req.op = "register"
    /\ UNCHANGED <<competitions, next_competition_id, teams, next_team_id,
                   team_members>>
    /\ RegisterCommit(req.username, req.email, req.password, TRUE)

RegRegister ==
    \E username, email \in Identifiers, password \in Passwords :
        BeginRegister(username, email, password)

CommitRegister == \E req \in BagToSet(inflight) : FinishRegister(req)

Login ==
    \E identifier \in Identifiers, password \in Passwords,
       found \in DOMAIN users \cup {NoUser} :
        LoginPost(identifier, password, found)

NextReg ==
    \/ RegRegister
    \/ CommitRegister
    \/ Login

SpecReg == Init /\ [][NextReg]_vars

\* ----------------------------------------------------------------- claims
\* The request handled last was an op request.
Handled(op) == last.op = op

\* The team of the last request is as its snapshot before the request,
\* member set included.
TeamUnchanged == Snapshot(last.team) = last.pre

\* The teams row of the last request's team is as before the request.
TeamRowKept ==
    /\ last.team \in DOMAIN teams
    /\ teams[last.team].leader_id = last.pre.leader_id
    /\ teams[last.team].status = last.pre.status
    /\ teams[last.team].competition_id = last.pre.competition_id

\* C1: every team that exists has its leader in its member set.
C1_LeaderIsMember ==
    \A t \in DOMAIN teams : teams[t].leader_id \in Members(t)

C1_Witness ==
    /\ Handled("remove")
    /\ last.code = 200
    /\ last.team \in DOMAIN teams

\* C2: every team that exists has at least one member, and a team whose last
\* member has left is no longer in the store.
C2_NonEmpty ==
    /\ \A t \in DOMAIN teams : Members(t) # {}
    /\ (Handled("leave") /\ last.code = 200 /\ last.pre.members = {last.user})
           => last.team \notin DOMAIN teams

C2_Witness ==
    /\ last.op \in {"leave", "remove"}
    /\ last.code = 200
    /\ last.team \in DOMAIN teams
    /\ Cardinality(Members(last.team)) = 1

\* C3: team_members holds at most one row per (user, team) pair, whatever the
\* interleaving of the requests.
C3_NoDuplicateMembership ==
    \A u \in 1..MaxUsers, t \in 1..MaxTeams : RowCount(team_members, u, t) <= 1

\* A join whose checks passed is rejected at its commit: the same user joined
\* the team in between.
C3_Witness ==
    /\ Handled("join")
    /\ last.code = 500
    /\ last.team \in DOMAIN teams
    /\ RowCount(team_members, last.user, last.team) = 1

\* C4: a successful create_team makes exactly one new team, open, led by
\* the requester, with the requester as its only member, bound to the
\* competition named; get team and list teams of that competition return it.
C4_CreatedState ==
    /\ (Handled("create") /\ last.code # 400 /\ last.arg \in DOMAIN competitions)
           => last.code = 201
    /\ (Handled("create") /\ last.code = 201) =>
        /\ last.team \in DOMAIN teams
        /\ to_dict(last.team) =
               [id |-> last.team, name |-> "Alpha", competition_id |-> last.arg,
                leader_id |-> last.user, status |-> "open",
                members |-> {last.user}, member_count |-> 1]
        /\ GetCheck(last.team)[1] = 200
        /\ last.team \in TeamListGet(last.arg)
        /\ \A c \in DOMAIN competitions :
               c # last.arg => last.team \notin TeamListGet(c)

C4_CreateStep ==
    (last'.op = "create" /\ last'.code = 201) =>
        /\ last'.team \notin DOMAIN teams
        /\ DOMAIN teams' = DOMAIN teams \cup {last'.team}
        /\ \A t \in DOMAIN teams : teams'[t] = teams[t]
        /\ team_members' = team_members (+)
               SetToBag({[user_id |-> last'.user, team_id |-> last'.team,
                          role |-> "member"]})
        /\ last'.arg \in DOMAIN competitions

C4_Create == [](C4_CreatedState) /\ [][C4_CreateStep]_vars

C4_Witness == Handled("create") /\ last.code = 201

\* C5: a join by a non-member on an open team succeeds and adds the requester,
\* with role member, and nothing else of the team changes.
C5_Join ==
    (/\ Handled("join")
     /\ last.pre.exists
     /\ last.pre.status = "open"
     /\ last.user \notin last.pre.members) =>
        /\ last.code = 200
        /\ Members(last.team) = last.pre.members \cup {last.user}
        /\ CopiesIn([user_id |-> last.user, team_id |-> last.team, role |-> "member"],
                    team_members) = 1
        /\ RowCount(team_members, last.user, last.team) = 1
        /\ TeamRowKept

C5_Witness ==
    /\ Handled("join")
    /\ last.code = 200
    /\ last.user \in Members(last.team)

C8_MemberLeaves ==
    (/\ Handled("leave")
     /\ last.pre.exists
     /\ last.user \in last.pre.members
     /\ last.user # last.pre.leader_id) =>
        /\ last.code = 200
        /\ Members(last.team) = last.pre.members \ {last.user}
        /\ RowCount(team_members, last.user, last.team) = 0
        /\ TeamRowKept

C8_Witness ==
    /\ Handled("leave")
    /\ last.code = 200
    /\ last.user # last.pre.leader_id

\* C9: a leave by the leader of a team with other members fails and changes
\* nothing; with leader A and member B, the leave of B succeeds and leaves {A}.
C9_LeaderGuard ==
    /\ (/\ Handled("leave")
        /\ last.pre.exists
        /\ last.user = last.pre.leader_id
        /\ Cardinality(last.pre.members) > 1) =>
           /\ last.code = 403
           /\ last.msg = "Captain must transfer leadership or disband team"
           /\ TeamUnchanged
    /\ (/\ Handled("leave")
        /\ last.pre.exists
        /\ last.user # last.pre.leader_id
        /\ last.pre.members = {last.pre.leader_id, last.user}) =>
           /\ last.code = 200
           /\ last.team \in DOMAIN teams
           /\ Members(last.team) = {last.pre.leader_id}

C9_Witness ==
    /\ Handled("leave")
    /\ last.code = 403
    /\ last.user = last.pre.leader_id

\* C10: the leave of a leader who is the only member deletes the team and its
\* membership; a leave deletes a team in no other case; a get of a team that
\* was deleted is answered 404, and a deleted team never comes back.
C10_LeaveState ==
    /\ (/\ Handled("leave")
        /\ last.pre.exists
        /\ last.user = last.pre.leader_id
        /\ last.pre.members = {last.user}) =>
           /\ last.code = 200
           /\ last.team \notin DOMAIN teams
           /\ RowsOf(team_members, last.team) = {}
           /\ GetCheck(last.team)[1] = 404
    /\ (Handled("leave") /\ last.pre.exists /\ last.team \notin DOMAIN teams) =>
           /\ last.user = last.pre.leader_id
           /\ last.pre.members = {last.user}
    /\ Handled("get") => (last.code = 404 <=> last.team \notin DOMAIN teams)
    /\ Handled("get") => last.code \in {200, 404}

C10_Gone ==
    \A t \in 1..MaxTeams :
        (t < next_team_id /\ t \notin DOMAIN teams) => t \notin DOMAIN teams'

C11_LeaveNotMember ==
    (Handled("leave") /\ last.pre.exists /\ last.user \notin last.pre.members) =>
        /\ last.code = 403
        /\ last.msg = "You are not a member of this team"
        /\ TeamUnchanged

C11_Witness ==
    /\ Handled("leave")
    /\ last.msg = "You are not a member of this team"
    /\ last.team \in DOMAIN teams
    /\ last.user \notin Members(last.team)

\* C12: a removal requested by a user who is not the leader, member or not,
\* fails with 403 Forbidden whatever the target, and leaves the member set,
\* the leader and the status as they were.
C12_RemoveByNonLeader ==
    (Handled("remove") /\ last.pre.exists /\ last.user # last.pre.leader_id) =>
        /\ last.code = 403
        /\ last.msg = "Forbidden: Only leader can remove members"
        /\ TeamUnchanged
        /\ TeamRowKept

\* A member who is not the leader asks for a removal.
C12_Witness ==
    /\ Handled("remove")
    /\ last.code = 403
    /\ last.user # last.pre.leader_id
    /\ last.user \in last.pre.members

\* C13: a removal by the leader of a member other than the leader succeeds and
\* removes the target alone: the leader, the other members and the status
\* stay.
C13_RemoveMember ==
    (/\ Handled("remove")
     /\ last.pre.exists
     /\ last.user = last.pre.leader_id
     /\ last.arg \in last.pre.members
     /\ last.arg # last.pre.leader_id) =>
        /\ last.code = 200
        /\ Members(last.team) = last.pre.members \ {last.arg}
        /\ RowCount(team_members, last.arg, last.team) = 0
        /\ \A m \in last.pre.members \ {last.arg} :
               RowCount(team_members, m, last.team) = 1
        /\ TeamRowKept

C13_Witness ==
    /\ Handled("remove")
    /\ last.code = 200
    /\ last.arg \in last.pre.members
    /\ last.arg \notin Members(last.team)
    /\ last.user \in Members(last.team)

\* C14: a removal by the leader of the leader fails with 403 "cannot remove
\* themselves" and leaves the member set as it was.
C14_RemoveSelf ==
    (/\ Handled("remove")
     /\ last.pre.exists
     /\ last.user = last.pre.leader_id
     /\ last.arg = last.pre.leader_id) =>
        /\ last.code = 403
        /\ last.msg = "Captain cannot remove themselves"
        /\ TeamUnchanged

C14_Witness ==
    /\ Handled("remove")
    /\ last.msg = "Captain cannot remove themselves"
    /\ last.arg = last.user
    /\ last.user \in Members(last.team)

\* C15: a removal by the leader of a target who is not in the member set, a
\* user outside the team or an id of no user, fails with 404 and leaves the
\* member set as it was.
C15_RemoveNotMember ==
    (/\ Handled("remove")
     /\ last.pre.exists
     /\ last.user = last.pre.leader_id
     /\ last.arg \notin last.pre.members) =>
        /\ last.code = 404
        /\ last.msg = IF last.arg \in DOMAIN users
                      THEN "User is not a member of this team"
                      ELSE "User not found"
        /\ TeamUnchanged

\* The target is the id of no user.
C15_Witness ==
    /\ Handled("remove")
    /\ last.code = 404
    /\ last.pre.exists
    /\ last.arg \notin DOMAIN users

C17_DisbandByNonLeader ==
    (Handled("disband") /\ last.pre.exists /\ last.user # last.pre.leader_id) =>
        /\ last.code = 403
        /\ last.msg = "Forbidden: Only the team leader can disband the team"
        /\ TeamUnchanged
        /\ TeamRowKept
        /\ \A m \in last.pre.members : RowCount(team_members, m, last.team) = 1

C17_Witness ==
    /\ Handled("disband")
    /\ last.code = 403
    /\ last.user \in Members(last.team)

\* C18: the membership of u in T goes away only in a step that handles u's own
\* leave of T, or a removal or disband of T by T's leader; T is deleted only
\* by a leave or disband of its leader. No request of another user does
\* either.
C18_Step ==
    (team_members' # team_members \/ teams' # teams) =>
        \A t \in DOMAIN teams :
            /\ \A u \in Members(t) :
                   (\A r \in BagToSet(team_members') :
                        ~(r.user_id = u /\ r.team_id = t)) =>
                       /\ last'.team = t
                       /\ last'.code = 200
                       /\ \/ last'.op = "leave" /\ last'.user = u
                          \/ /\ last'.op \in {"remove", "disband"}
                             /\ last'.user = teams[t].leader_id
            /\ t \notin DOMAIN teams' =>
                   /\ last'.team = t
                   /\ last'.code = 200
                   /\ last'.op \in {"leave", "disband"}
                   /\ last'.user = teams[t].leader_id

C18_OnlyOwnOrLeader == [][C18_Step]_vars

\* The leader has removed another member.
C18_Witness ==
    /\ Handled("remove")
    /\ last.code = 200
    /\ last.user = last.pre.leader_id
    /\ last.arg # last.user
    /\ RowCount(team_members, last.arg, last.team) = 0

\* C19: a create that names a competition that does not exist is answered 404
\* and creates no team and no membership.
C19_Step ==
    (/\ last'.op = "create"
     /\ last'.auth = "valid"
     /\ last'.code # 400
     /\ last'.arg \notin DOMAIN competitions) =>
        /\ last'.code = 404
        /\ last'.msg = "Competition not found"
        /\ UNCHANGED <<teams, next_team_id, team_members>>

C19_CreateNoCompetition == [][C19_Step]_vars

C19_Witness ==
    /\ Handled("create")
    /\ last.code = 404
    /\ last.arg \notin DOMAIN competitions
    /\ teams = << >>
    /\ team_members = EmptyBag

C20_State ==
    /\ (last.op \in ProtectedOps /\ last.auth # "valid") =>
           /\ last.code = IF last.auth = "invalid" THEN 422 ELSE 401
           /\ last.user = NoUser
           /\ TeamUnchanged
    /\ (last.op \in ProtectedOps /\ last.code \in {200, 201}) =>
           /\ last.auth = "valid"
           /\ last.user \in DOMAIN users
    /\ Handled("get") =>
           /\ last.auth = "none"
           /\ last.code = IF last.team \in DOMAIN teams THEN 200 ELSE 404
    /\ Handled("list") => (last.auth = "none" /\ last.code = 200)

C20_Step ==
    (last'.op \in ProtectedOps /\ last'.auth # "valid") => UNCHANGED dbvars

C21_Step ==
    /\ \A t \in 1..MaxTeams :
           (t < next_team_id /\ t \notin DOMAIN teams) =>
               (t \notin DOMAIN teams' /\ RowsOf(team_members', t) = {})
    /\ (/\ last'.op \in {"get", "join", "leave", "remove", "disband"}
        /\ last'.auth \in {"valid", "none"}
        /\ last'.team \notin DOMAIN teams) =>
           /\ last'.code = 404
           /\ last'.msg = "Team not found"
           /\ UNCHANGED dbvars

C22_ExactlyOne ==
    (/\ Handled("leave")
     /\ last.code = 200
     /\ last.pre.exists
     /\ last.team \notin DOMAIN teams) =>
        last.pre.members = {last.user}

\* C23: of two concurrent joins by one user on one open team at most one
\* reports success: a join whose commit finds the user in the member set is
\* answered with a failure and adds nothing, and a join that reports success
\* leaves exactly one row of the user.
C23_OneJoinSucceeds ==
    /\ (Handled("join") /\ last.pre.exists /\ last.user \in last.pre.members) =>
           /\ last.code \in {409, 500}
           /\ TeamUnchanged
           /\ RowCount(team_members, last.user, last.team) = 1
    /\ (Handled("join") /\ last.code = 200) =>
           /\ last.user \notin last.pre.members
           /\ RowCount(team_members, last.user, last.team) = 1

\* The second of two joins that both passed their checks is refused at its
\* commit.
C23_Witness ==
    /\ Handled("join")
    /\ last.code = 500
    /\ last.pre.exists
    /\ last.pre.status = "open"
    /\ last.user \in last.pre.members
    /\ last.user # last.pre.leader_id

\* C24: the responses and the state of concurrent joins, leaves, removals and
\* disbands on one team are those of the same requests handled one at a time
\* in some order. Handled one at a time, none of these requests is answered
\* 500 and no team_members row outlives its team, so the same holds of every
\* interleaving.
C24_Serializable ==
    /\ last.op \in {"join", "leave", "remove", "disband"} => last.code # 500
    /\ \A t \in 1..MaxTeams :
           t \notin DOMAIN teams => RowsOf(team_members, t) = {}

\* C25: a create, join, leave, removal or disband leaves every team other
\* than the one it names as it was, existence, leader, status and member rows;
\* and a join or a leave is decided by the named team alone, whatever other
\* teams the requester is in.
C25_State ==
    /\ (/\ Handled("join")
        /\ last.pre.exists
        /\ last.pre.status = "open"
        /\ last.user \notin last.pre.members) =>
           /\ last.code = 200
           /\ Members(last.team) = last.pre.members \cup {last.user}
    /\ (/\ Handled("leave")
        /\ last.pre.exists
        /\ last.user \in last.pre.members
        /\ last.user # last.pre.leader_id) =>
           /\ last.code = 200
           /\ Members(last.team) = last.pre.members \ {last.user}

C25_Step ==
    last'.op \in {"create", "join", "leave", "remove", "disband"} =>
        \A t \in 1..MaxCrossTeams :
            t # last'.team =>
                /\ t \in DOMAIN teams <=> t \in DOMAIN teams'
                /\ t \in DOMAIN teams => teams'[t] = teams[t]
                /\ \A r \in BagToSet(team_members) \cup BagToSet(team_members') :
                       r.team_id = t =>
                           CopiesIn(r, team_members') = CopiesIn(r, team_members)

C25_TeamsIndependent == [](C25_State) /\ [][C25_Step]_vars

\* A user who is in one team has joined another.
C25_Witness ==
    /\ Handled("join")
    /\ last.code = 200
    /\ \E t \in DOMAIN teams : t # last.team /\ last.user \in Members(t)

\* C26: a create, join, leave, removal or disband whose commit the store
\* refuses is answered 500 with the handler's failure message and changes
\* nothing in the store; a request that reports success has taken effect.
C26_State ==
    /\ (last.op \in {"join", "leave", "remove", "disband"} /\ last.code = 500) =>
           /\ TeamUnchanged
           /\ last.msg \in {"Failed to join team", "Failed to leave",
                            "Failed to disband", "Failed to remove member",
                            "Failed to disband team"}
    /\ (Handled("create") /\ last.code = 500) =>
           (last.msg = "Failed to create team" /\ last.team = NoTeamId)
    /\ (Handled("create") /\ last.code = 201) =>
           (last.team \in DOMAIN teams /\ Members(last.team) = {last.user})
    /\ (Handled("join") /\ last.code = 200) => last.user \in Members(last.team)
    /\ (Handled("leave") /\ last.code = 200) => last.user \notin Members(last.team)
    /\ (Handled("remove") /\ last.code = 200) => last.arg \notin Members(last.team)
    /\ (Handled("disband") /\ last.code = 200) => last.team \notin DOMAIN teams
    /\ last.op \in ProtectedOps =>
           last.code \in {200, 201, 400, 403, 404, 409, 500}

C26_Step ==
    (last'.op \in ProtectedOps /\ last'.code = 500) => UNCHANGED dbvars

C26_StoreFailure == [](C26_State) /\ [][C26_Step]_vars

\* The store has refused the commit of a disband of a team of two.
C26_Witness ==
    /\ Handled("disband")
    /\ last.code = 500
    /\ last.team \in DOMAIN teams
    /\ Cardinality(Members(last.team)) > 1

\* C27: a change of a competition's status leaves its teams and their
\* memberships as they were, and the roster requests on a team are decided as
\* they are for a team of a recruiting competition: a join by a non-member on
\* an open team, a leave by a member who is not the leader, a removal of
\* another member by the leader and a disband by the leader succeed.
C27_State ==
    /\ (/\ Handled("join")
        /\ last.pre.exists
        /\ last.pre.status = "open"
        /\ last.user \notin last.pre.members) =>
           (last.code = 200 /\ last.user \in Members(last.team))
    /\ (/\ Handled("leave")
        /\ last.pre.exists
        /\ last.user \in last.pre.members
        /\ last.user # last.pre.leader_id) =>
           (last.code = 200 /\ last.user \notin Members(last.team))
    /\ (/\ Handled("remove")
        /\ last.pre.exists
        /\ last.user = last.pre.leader_id
        /\ last.arg \in last.pre.members \ {last.user}) =>
           (last.code = 200 /\ last.arg \notin Members(last.team))
    /\ (Handled("disband") /\ last.pre.exists /\ last.user = last.pre.leader_id) =>
           (last.code = 200 /\ last.team \notin DOMAIN teams)

C27_Step ==
    last'.op = "update_competition" =>
        UNCHANGED <<teams, next_team_id, team_members, users>>

C27_CompetitionStatusUnread == [](C27_State) /\ [][C27_Step]_vars

\* A join on a team whose competition has ended.
C27_Witness ==
    /\ Handled("join")
    /\ last.code = 200
    /\ last.pre.competition_id \in DOMAIN competitions
    /\ competitions[last.pre.competition_id].status = "ended"

\* C28: no request changes the competition_id of a team that exists.
C28_Step ==
    \A t \in DOMAIN teams :
        t \in DOMAIN teams' => teams'[t].competition_id = teams[t].competition_id

C28_CompetitionFixed == [][C28_Step]_vars

\* The delete of a competition that has a team was asked for and refused.
C28_Witness ==
    /\ Handled("delete_competition")
    /\ last.code \in {409, 500}
    /\ \E t \in DOMAIN teams : teams[t].competition_id = last.arg

C30_AsStated ==
    /\ (Handled("update") /\ last.pre.exists /\ last.user = last.pre.leader_id) =>
           last.code = 200
    /\ (Handled("update") /\ last.pre.exists /\ last.user # last.pre.leader_id) =>
           (last.code = 403 /\ TeamUnchanged)

\* C31: the scenario runs step by step. A creates competition C (201), then
\* team Alpha under C (201): A is the leader and the only member, the team is
\* open. B joins (200): the members are A and B. A removes B (200): the
\* members are A. A leaves (200): the team is gone, with its rows.
C31_Scenario ==
    /\ Handled("create_competition") =>
           /\ last.code = 201
           /\ last.arg \in DOMAIN competitions
           /\ competitions[last.arg].created_by_user_id = last.user
    /\ (Handled("create") /\ last.arg \in DOMAIN competitions) =>
           /\ last.code = 201
           /\ Snapshot(last.team) =
                  [exists |-> TRUE, leader_id |-> last.user, status |-> "open",
                   competition_id |-> last.arg, members |-> {last.user}]
           /\ teams[last.team].name = "Alpha"
    /\ (/\ Handled("join")
        /\ last.pre.exists
        /\ last.pre.status = "open"
        /\ last.pre.members = {last.pre.leader_id}
        /\ last.user # last.pre.leader_id) =>
           /\ last.code = 200
           /\ Snapshot(last.team) =
                  [last.pre EXCEPT !.members = {last.pre.leader_id, last.user}]
    /\ (/\ Handled("remove")
        /\ last.pre.exists
        /\ last.user = last.pre.leader_id
        /\ last.arg # last.user
        /\ last.pre.members = {last.user, last.arg}) =>
           /\ last.code = 200
           /\ Snapshot(last.team) = [last.pre EXCEPT !.members = {last.user}]
    /\ (/\ Handled("leave")
        /\ last.pre.exists
        /\ last.user = last.pre.leader_id
        /\ last.pre.members = {last.user}) =>
           /\ last.code = 200
           /\ last.team \notin DOMAIN teams
           /\ RowsOf(team_members, last.team) = {}

\* The end of the scenario: A, alone in the team again, has left and the team
\* is gone, with B registered and the competition still there.
C31_Witness ==
    /\ Handled("leave")
    /\ last.code = 200
    /\ last.pre.members = {last.user}
    /\ last.pre.competition_id \in DOMAIN competitions
    /\ competitions[last.pre.competition_id].created_by_user_id = last.user
    /\ last.team \notin DOMAIN teams
    /\ \E b \in DOMAIN users : b # last.user

\* C32: a competition is changed or deleted by no request but an update or a
\* delete of its creator; an update or a delete asked for by another user is
\* answered 403 and leaves the competitions as they were; a create makes one
\* competition, created by the requester, recruiting unless a status was given.
C32_Step ==
    /\ \A c \in DOMAIN competitions :
           (c \notin DOMAIN competitions' \/ competitions'[c] # competitions[c]) =>
               /\ last'.op \in {"update_competition", "delete_competition"}
               /\ last'.arg = c
               /\ last'.user = competitions[c].created_by_user_id
               /\ last'.code = 200
    /\ (/\ last'.op \in {"update_competition", "delete_competition"}
        /\ last'.arg \in DOMAIN competitions
        /\ last'.user # competitions[last'.arg].created_by_user_id) =>
           /\ last'.code = 403
           /\ competitions' = competitions
    /\ last'.op = "create_competition" =>
           /\ last'.arg \notin DOMAIN competitions
           /\ DOMAIN competitions' = DOMAIN competitions \cup {last'.arg}
           /\ \A c \in DOMAIN competitions : competitions'[c] = competitions[c]
           /\ competitions'[last'.arg] =
                  [status |-> IF last'.given = "" THEN "recruiting" ELSE last'.given,
                   created_by_user_id |-> last'.user]

C32_CreatorOnly == [][C32_Step]_vars

\* A user who did not create the competition asked for its update or its
\* delete and got 403, and the competition was created with a status given.
C32_Witness ==
    /\ last.op \in {"update_competition", "delete_competition"}
    /\ last.code = 403
    /\ last.arg \in DOMAIN competitions
    /\ competitions[last.arg].created_by_user_id # last.user
    /\ competitions[last.arg].status = "ongoing"

\* The username or the email is the one of a user in us.
InUse(us, username, email) ==
    \E i \in DOMAIN us : us[i].username = username \/ us[i].email = email

\* C33: no two users share a username or an email, whatever the interleaving
\* of the registrations; a registration that finds its username or its email
\* in use is answered 409 and no registration with a name in use makes a user.
C33_State ==
    \A i, j \in DOMAIN users :
        i # j => /\ users[i].username # users[j].username
                 /\ users[i].email # users[j].email

C33_Step ==
    /\ (last'.op = "register" /\ last' # last /\ inflight' = inflight) =>
           /\ InUse(users, last'.username, last'.email)
           /\ last'.code = 409
           /\ users' = users
    /\ (\E req \in BagToSet(inflight') :
            inflight' = inflight (+) SetToBag({req})) =>
           /\ \A req \in BagToSet(inflight') :
                  inflight' = inflight (+) SetToBag({req}) =>
                      ~InUse(users, req.username, req.email)
           /\ users' = users
    /\ \A req \in BagToSet(inflight) :
           (inflight' = inflight (-) SetToBag({req})
                /\ InUse(users, req.username, req.email)) =>
               /\ last'.code \in {409, 500}
               /\ users' = users

C34_AsStated ==
    Handled("login") =>
        /\ last.code = 200 <=>
               \E i \in DOMAIN users :
                   /\ last.identifier \in {users[i].username, users[i].email}
                   /\ check_password_hash(users[i].password_hash, last.password)
        /\ last.code = 200 =>
               /\ last.user \in DOMAIN users
               /\ last.identifier \in {users[last.user].username,
                                       users[last.user].email}
               /\ check_password_hash(users[last.user].password_hash, last.password)
               /\ last.tokens.access_token.sub = ToString(last.user)
               /\ last.tokens.refresh_token.sub = ToString(last.user)
        /\ last.code # 200 =>
               (last.code = 401 /\ last.msg = "Bad username or password")

\* C35 as stated: the role stored with a membership is leader for the team's
\* leader and member for every other user, so each team has exactly one row of
\* role leader, the one of its leader.
C35_AsStated ==
    \A t \in DOMAIN teams :
        /\ \A r \in RowsOf(team_members, t) :
               r.role = IF r.user_id = teams[t].leader_id THEN "leader" ELSE "member"
        /\ {r.user_id : r \in {x \in RowsOf(team_members, t) : x.role = "leader"}}
               = {teams[t].leader_id}

\* The members of team t after the step.
MembersAfter(t) == {r.user_id : r \in RowsOf(team_members', t)}

\* C36: no request changes the leader of a team that exists, and a team whose
\* leader has other members keeps its leader as a member until the leader
\* disbands it: the leader's leave is refused.
C36_Step ==
    \A t \in DOMAIN teams :
        /\ t \in DOMAIN teams' => teams'[t].leader_id = teams[t].leader_id
        /\ Cardinality(Members(t)) > 1 =>
               /\ t \in DOMAIN teams' => teams[t].leader_id \in MembersAfter(t)
               /\ t \notin DOMAIN teams' =>
                      /\ last'.op = "disband"
                      /\ last'.user = teams[t].leader_id
                      /\ last'.code = 200
               /\ (last'.op = "leave" /\ last'.team = t
                       /\ last'.user = teams[t].leader_id) =>
                      (last'.code = 403 /\ UNCHANGED <<teams, team_members>>)

C36_LeaderFixed == [][C36_Step]_vars

\* The leader of a team with another member asked to leave and was refused.
C36_Witness ==
    /\ Handled("leave")
    /\ last.code = 403
    /\ last.team \in DOMAIN teams
    /\ last.user = teams[last.team].leader_id
    /\ Cardinality(Members(last.team)) > 1

\* C37: every team references a competition that exists; the delete of a
\* competition that has teams is refused, with 409 or 500 when its creator
\* asks, and leaves the competitions, the teams and the memberships as they
\* were.
C37_State ==
    \A t \in DOMAIN teams : teams[t].competition_id \in DOMAIN competitions

C37_Step ==
    (/\ last'.op = "delete_competition"
     /\ last' # last
     /\ \E t \in DOMAIN teams : teams[t].competition_id = last'.arg) =>
        /\ last'.code \in {403, 409, 500}
        /\ last'.user = competitions[last'.arg].created_by_user_id
               => last'.code \in {409, 500}
        /\ UNCHANGED <<competitions, teams, team_members>>

C37_TeamsKeepCompetition == [](C37_State) /\ [][C37_Step]_vars

\* The creator of a competition that has a team asked for its delete.
C37_Witness ==
    /\ Handled("delete_competition")
    /\ last.code \in {409, 500}
    /\ last.arg \in DOMAIN competitions
    /\ last.user = competitions[last.arg].created_by_user_id
    /\ TeamsOf(last.arg) # {}

\* C38: a user enters the member set of a team by no request but their own
\* create of that team or their own join of it.
C38_Step ==
    \A t \in 1..MaxCrossTeams :
        \A y \in MembersAfter(t) \ Members(t) :
            /\ last'.op \in {"create", "join"}
            /\ last'.user = y
            /\ last'.team = t
            /\ last'.code \in {200, 201}

C38_OwnRequestOnly == [][C38_Step]_vars

\* A user has joined a team that another user leads.
C38_Witness ==
    /\ Handled("join")
    /\ last.code = 200
    /\ last.user \in Members(last.team)
    /\ last.user # teams[last.team].leader_id

\* C39 as stated: in every state, for every registered requester and for all
\* arguments, the legacy handler and the RESTX handler of create, join, leave,
\* remove member and disband come to the same status code, and a team that one
\* of them has created the other would have created too.
C39_AsStated ==
    /\ \A u \in DOMAIN users, name \in TeamNames, c \in CompetitionIds :
           create_team_check(name, c)[1] = CreateCheck(name, c)[1]
    /\ \A u \in DOMAIN users, t \in 1..MaxTeams :
           /\ join_team_check(u, t)[1] = JoinCheck(u, t)[1]
           /\ leave_team_check(u, t)[1] = LeaveCheck(u, t)[1]
           /\ disband_team_check(u, t)[1] = DisbandCheck(u, t)[1]
           /\ \A target \in 1..MaxUsers :
                  remove_member_check(u, t, target)[1] = RemoveCheck(u, t, target)[1]
    /\ (Handled("create") /\ last.code = 201) =>
           /\ create_team_check(teams[last.team].name, last.arg) = Pass
           /\ CreateCheck(teams[last.team].name, last.arg) = Pass

====
